---- MODULE Spec2Model ----
(***************************************************************************)
(* Invoice-to-payment pipeline of backend/src/agents/payment_agent.py      *)
(* (process_payment and its helpers), the Payman tools of                  *)
(* backend/src/tools/payment_tools.py and the two payment-history writers  *)
(* (agents/payment_agent.save_payment_history and                          *)
(* multi_agent.save_payment_history), and the pay_invoice request of       *)
(* backend/src/api.py.                                                     *)
(*                                                                         *)
(* Amounts and balances are whole currency units.  Python None is the      *)
(* string NONE for string-valued fields and the empty tuple for amounts    *)
(* (a present amount a is <<a>>).  Timestamps, subjects and descriptions   *)
(* are not modelled: no decision of the code reads them.                   *)
(***************************************************************************)
EXTENDS Integers, Sequences, FiniteSets, TLC

\* ------------------------------------------------------------------ bounds
MaxBalance == 3
\* The longest history the stand-alone runs of the agent writer build.
MaxRecords == 3
\* The most node runs of the multi-agent workflow that are followed.
MaxVisits == 5
\* The most invoice e-mails one run of the workflow finds.
MaxEmails == 2
\* The most payments of a batch.
MaxBatch == 2

\* ------------------------------------------------------------- data domains
NONE == "None"
NoAmount == <<>>

Workers == {1, 2}

MessageIds == {"m1", "m2"}
AttachmentIds == {"a1"}
ThreadIds == {"t1", "t2"}
ThreadOf(message_id) == IF message_id = "m1" THEN "t1" ELSE "t2"
Senders == {"vendor@x"}
InvoiceNumbers == {"", "INV1", "INV2"}
Recipients == {"acme"}
Dates == {"d1"}
PaidAmounts == {NoAmount, <<-1>>, <<0>>, <<2>>}
Balances == 0..MaxBalance

CompleteBank == [account_holder_name |-> "acme", account_number |-> "123",
                 routing_number |-> "456", account_type |-> "checking"]
NoBank == [account_holder_name |-> "", account_number |-> "", routing_number |-> "",
           account_type |-> ""]
BankDetails == {NoBank, CompleteBank}

\* Every message opens its own thread.
EmailData == {e \in [thread_id : ThreadIds, message_id : MessageIds,
                     sender : Senders, attachment_id : AttachmentIds] :
                e.thread_id = ThreadOf(e.message_id)}

AllInvoices == [invoice_number : InvoiceNumbers, paid_amount : PaidAmounts,
                recipient : Recipients, date : Dates,
                bank_details : BankDetails, email_data : EmailData]

\* Invoices that pass the required-fields check with a positive amount.
ValidInvoices == {i \in AllInvoices : i.invoice_number # "" /\ i.paid_amount = <<2>>}

\* The invoices the pipeline is run on: the valid ones, and for message m1 the ones
\* with one defective field (no number; amount absent, zero or negative).
Invoices == ValidInvoices \cup
            {i \in AllInvoices : /\ i.email_data.message_id = "m1"
                                 /\ \/ i.invoice_number = "" /\ i.paid_amount = <<2>>
                                    \/ i.invoice_number = "INV1" /\ i.paid_amount # <<2>>}

\* Invoices a caller hands to the history writers.
SaveInvoices == {i \in ValidInvoices : i.bank_details = NoBank}

\* Error strings of the code.
ErrMissing == "Missing required fields"
ErrPrevProcessed == "Invoice was previously processed successfully"
ErrWasProcessed == "Invoice was already processed"
ErrAlreadyProcessed == "Invoice already processed"
ErrInsufficient == "Insufficient balance"
ErrBankRequired == "Bank details and payee information required"
ErrPayeeCreation == "Failed to find or create payee"

\* Python truthiness of the values a dict lookup returns.
TruthyStr(s) == s # NONE /\ s # ""
TruthyAmt(a) == a # NoAmount /\ a # <<0>>

\* ------------------------------------------------------ run results (dicts)
Result(success, error, payment_id, email_sent, method, dup) ==
    [success |-> success, error |-> error, payment_id |-> payment_id,
     email_sent |-> email_sent, payment_method |-> method, duplicate_info |-> dup]

NoResult == Result(FALSE, NONE, NONE, FALSE, NONE, NONE)

\* Results a caller hands to the history writers.
SaveResults == {Result(TRUE, NONE, "ref1", FALSE, "existing_payee", NONE),
                Result(FALSE, ErrAlreadyProcessed, NONE, FALSE, NONE, NONE),
                Result(FALSE, ErrBankRequired, NONE, TRUE, NONE, NONE)}

\* ------------------------------------------------------- payment history
VARIABLES history

\* The first index of a set of list positions, 0 if the set is empty
\* (the "for record in history: if ...: return" loops stop at the first match).
FirstIndex(S) == IF S = {} THEN 0 ELSE CHOOSE k \in S : \A j \in S : k <= j

\* A dict given to the writers may lack a key.  d.get(k) reads such a key as None,
\* d.get(k, default) as the default; a key holding None is None for both.
ABSENT == "<absent>"
Get(v) == IF v = ABSENT THEN NONE ELSE v
GetOr(v, default) == IF v = ABSENT THEN default ELSE v

\* What the history file holds when it is damaged: content json.load rejects (the whole
\* file, shown as a list of one such item), or a record without the expected fields.
UnparsableFile == [unparsable |-> TRUE]
MalformedRecord == [timestamp |-> "ts"]
Unparsable(hist) == Len(hist) = 1 /\ "unparsable" \in DOMAIN hist[1]
WellFormed(record) == {"email_data", "invoice_data", "result"} \subseteq DOMAIN record
Readable(hist) == ~Unparsable(hist) /\ \A k \in 1..Len(hist) : WellFormed(hist[k])

\* The list the writers go on with: both catch json.JSONDecodeError and take [].
ParseHistory(hist) == IF Unparsable(hist) THEN <<>> ELSE hist

\* The comparisons below are those of the code on a record with the expected fields; a
\* record without them matches nothing.
ExactMatch(record, email_data) ==
    /\ WellFormed(record)
    /\ Get(record.email_data.message_id) = Get(email_data.message_id)
    /\ Get(record.email_data.attachment_id) = Get(email_data.attachment_id)

SimilarMatch(record, invoice_data) ==
    /\ WellFormed(record)
    /\ Get(record.invoice_data.invoice_number) = Get(invoice_data.invoice_number)
    /\ Get(record.invoice_data.date) = Get(invoice_data.date)
    /\ record.invoice_data.paid_amount = invoice_data.paid_amount
    /\ Get(record.invoice_data.recipient) = Get(invoice_data.recipient)

\* The snapshot of the invoice both writers store.
InvoiceSnapshot(invoice_data) ==
    [invoice_number |-> invoice_data.invoice_number, paid_amount |-> invoice_data.paid_amount,
     recipient |-> invoice_data.recipient, date |-> invoice_data.date]

\* agents/payment_agent.save_payment_history: the entry it formats.
\* Each field is copied with .get(key, ""), so a missing key is stored as "".
AgentEntry(email_data, invoice_data, result) ==
    [email_data |-> [thread_id |-> GetOr(email_data.thread_id, ""),
                     message_id |-> GetOr(email_data.message_id, ""),
                     sender |-> GetOr(email_data.sender, ""),
                     attachment_id |-> GetOr(email_data.attachment_id, "")],
     invoice_data |-> [invoice_number |-> GetOr(invoice_data.invoice_number, ""),
                       paid_amount |-> invoice_data.paid_amount,
                       recipient |-> GetOr(invoice_data.recipient, ""),
                       date |-> GetOr(invoice_data.date, "")],
     result |-> [success |-> result.success, error |-> result.error, error_type |-> NONE,
                 email_sent |-> result.email_sent, payment_id |-> result.payment_id]]

\* agents/payment_agent.save_payment_history: the list it leaves in the file, given the
\* content it loaded.  An entry matching on either key makes it return without writing,
\* and so does the KeyError of entry["email_data"] on a record without the fields; an
\* unparsable file is taken as [] and overwritten.
AgentSave(loaded, email_data, invoice_data, result) ==
    LET list == ParseHistory(loaded)
    IN  IF \E k \in 1..Len(list) :
              \/ ~WellFormed(list[k])
              \/ ExactMatch(list[k], email_data)
              \/ SimilarMatch(list[k], invoice_data)
        THEN loaded
        ELSE Append(list, AgentEntry(email_data, invoice_data, result))

\* multi_agent.categorize_error, on the error strings of the code.
CategorizeError(error) ==
    IF ~TruthyStr(error) THEN "none"
    ELSE IF error = ErrInsufficient THEN "insufficient_funds"
    ELSE IF error = ErrPayeeCreation THEN "payee_creation_failed"
    ELSE IF error \in {ErrMissing, ErrBankRequired} THEN "validation_error"
    ELSE "other"

\* multi_agent.save_payment_history: the records it keeps.  Neither writer stores an
\* "email" key, so record.get("email", {}).get(...) is None for every record.
MultiKeep(record, message_id, thread_id) ==
    ~ \/ (IF WellFormed(record) THEN record.email_data.message_id ELSE NONE) = message_id
      \/ (IF WellFormed(record) THEN record.email_data.thread_id ELSE NONE) = thread_id
      \/ NONE = message_id
      \/ NONE = thread_id

\* multi_agent.save_payment_history: the unified record (it stores no attachment_id).
MultiEntry(email_data, invoice_data, result) ==
    [email_data |-> [thread_id |-> email_data.thread_id, message_id |-> email_data.message_id,
                     sender |-> email_data.sender, attachment_id |-> NONE],
     invoice_data |-> InvoiceSnapshot(invoice_data),
     result |-> [success |-> result.success, error |-> result.error,
                 error_type |-> CategorizeError(result.error),
                 email_sent |-> result.email_sent, payment_id |-> result.payment_id]]

\* multi_agent.save_payment_history: the list it writes, given the list it loaded.
MultiSave(loaded, email_data, invoice_data, result) ==
    LET Keep(record) == MultiKeep(record, email_data.message_id, email_data.thread_id)
    IN  Append(SelectSeq(ParseHistory(loaded), Keep),
               MultiEntry(email_data, invoice_data, result))

\* is_duplicate_invoice with the two loops in the other order.
IsDuplicateInvoice_SimilarFirst(hist, invoice_data, email_data) ==
    LET Settled(record) == record.result.success \/ record.result.error = ErrAlreadyProcessed
        e == FirstIndex({k \in 1..Len(hist) : ExactMatch(hist[k], email_data)})
        s == FirstIndex({k \in 1..Len(hist) : SimilarMatch(hist[k], invoice_data)})
    IN  IF s # 0 THEN (IF Settled(hist[s]) THEN <<>> ELSE <<hist[s]>>)
        ELSE IF e # 0 THEN (IF Settled(hist[e]) THEN <<>> ELSE <<hist[e]>>)
        ELSE <<>>

\* is_duplicate_invoice: <<record>> for the record it returns, <<>> for Python None.
\* The except branch returns None: for a file json.load rejects, and for the KeyError of
\* record["email_data"] when the first loop comes to a record without the fields before
\* it has returned.
IsDuplicateInvoice(hist, invoice_data, email_data) ==
    LET Settled(record) == record.result.success \/ record.result.error = ErrAlreadyProcessed
        e == FirstIndex({k \in 1..Len(hist) : ExactMatch(hist[k], email_data)})
        s == FirstIndex({k \in 1..Len(hist) : SimilarMatch(hist[k], invoice_data)})
        m == FirstIndex({k \in 1..Len(hist) : ~WellFormed(hist[k])})
    IN  IF Unparsable(hist) \/ (m # 0 /\ (e = 0 \/ m < e)) THEN <<>>
        ELSE IF e # 0 THEN (IF Settled(hist[e]) THEN <<>> ELSE <<hist[e]>>)
        ELSE IF s # 0 THEN (IF Settled(hist[s]) THEN <<>> ELSE <<hist[s]>>)
        ELSE <<>>

\* is_invoice_processed: False for a file json.load rejects (the except branch); a
\* record without the fields matches nothing (payment.get("invoice_data", {})).
IsInvoiceProcessed(hist, invoice_number, recipient) ==
    \E k \in 1..Len(hist) :
        /\ WellFormed(hist[k])
        /\ hist[k].invoice_data.invoice_number = invoice_number
        /\ hist[k].invoice_data.recipient = recipient
        /\ hist[k].result.success

\* ------------------------------------------------------ provider and tools
\* BalanceTool.run: "Current balance: $b", or the error text safe_api_call returns.
BalanceResponses == [ok : {TRUE}, balance : Balances] \cup {[ok |-> FALSE, balance |-> 0]}

\* check_balance: the parsed balance, 0.0 for anything but "Current balance: $b".
CheckBalance(response) == IF response.ok THEN response.balance ELSE 0

\* SearchPayeesTool.run: the provider's payee list in provider order ([] on an API error).
PayeeIds == {"pd1", "pd2"}
SearchResponses == {<<>>, <<"pd1">>, <<"pd2", "pd1">>}

\* search_or_create_payee: the first payee of the list, NONE when the list is empty.
SearchOrCreatePayee(payees) == IF Len(payees) = 0 THEN NONE ELSE payees[1]

\* What client.payments.send_payment does when it is reached: a reference, a response
\* without a reference (NONE), or an exception ("error").
SendOutcomes == {"ref1", NONE, "error"}

\* SendPaymentTool with the destination read from either key, so that it never raises
\* KeyError.
SendPaymentTool_AnyDestination(params, outcome) ==
    IF outcome = "error"
    THEN [reference |-> NONE, provider_called |-> TRUE]
    ELSE [reference |-> (IF outcome = NONE THEN "Unknown" ELSE outcome),
          provider_called |-> TRUE]

\* SendPaymentTool._run on the parsed params: params["destination_id"] raises KeyError
\* before the provider is called when the key is absent; the except branch turns every
\* exception into "Payment failed"; a response without reference reads "Unknown".
SendPaymentTool(params, outcome) ==
    IF "destination_id" \notin DOMAIN params
    THEN [reference |-> NONE, provider_called |-> FALSE]
    ELSE IF outcome = "error"
    THEN [reference |-> NONE, provider_called |-> TRUE]
    ELSE [reference |-> (IF outcome = NONE THEN "Unknown" ELSE outcome),
          provider_called |-> TRUE]

\* What the messaging agent does with a reply request.
ChannelOutcomes == {"sent", "failed", "raised"}

\* The bank-details branch condition of process_payment.
BankDetailsComplete(bank_details) ==
    /\ TruthyStr(bank_details.account_number)
    /\ TruthyStr(bank_details.routing_number)
    /\ TruthyStr(bank_details.account_type)

\* ------------------------------------------------- process_payment (per worker)
VARIABLES pc, inv, balance, payee, calls, result, settledDup, startLen, paid

NoInvoice == [invoice_number |-> "", paid_amount |-> NoAmount, recipient |-> "acme",
              date |-> "d1", bank_details |-> NoBank,
              email_data |-> [thread_id |-> "t1", message_id |-> "m1",
                              sender |-> "vendor@x", attachment_id |-> "a1"]]

Key(invoice_data) == <<invoice_data.email_data.message_id, invoice_data.email_data.attachment_id>>

\* return <dict> from process_payment
Finish(r, res) ==
    /\ pc' = [pc EXCEPT ![r] = "done"]
    /\ result' = [result EXCEPT ![r] = res]
    /\ UNCHANGED paid

\* process_payment is entered; the required-fields check.
Start(r, invoice_data) ==
    /\ pc[r] = "idle"
    /\ inv' = [inv EXCEPT ![r] = invoice_data]
    /\ startLen' = [startLen EXCEPT ![r] = Len(history)]
    /\ IF \/ ~TruthyStr(invoice_data.invoice_number)
          \/ ~TruthyAmt(invoice_data.paid_amount)
          \/ ~TruthyStr(invoice_data.recipient)
       THEN /\ pc' = [pc EXCEPT ![r] = "done"]
            /\ result' = [result EXCEPT ![r] = Result(FALSE, ErrMissing, NONE, FALSE, NONE, NONE)]
       ELSE /\ pc' = [pc EXCEPT ![r] = "dup_check"]
            /\ UNCHANGED result
    /\ UNCHANGED <<history, balance, payee, calls, settledDup, paid>>

Call(op, arg) == [op |-> op, arg |-> arg]
Logged(r, cs) == calls' = [calls EXCEPT ![r] = @ \o cs]

\* The calls a run of SendPaymentTool adds to the log: the tool call and, when the tool
\* reaches the provider, the provider call and what the provider answered.
SendCalls(dest, sent, outcome) ==
    <<Call("send_payment_tool", dest)>> \o
    (IF sent.provider_called
     THEN <<Call("provider_send_payment", dest), Call("provider_response", outcome)>>
     ELSE <<>>)

\* The record the lookup matches (exact match first, else similar), 0 if none, and
\* whether it is settled.
MatchedIndex(hist, invoice_data) ==
    LET e == FirstIndex({k \in 1..Len(hist) : ExactMatch(hist[k], invoice_data.email_data)})
    IN  IF e # 0 THEN e
        ELSE FirstIndex({k \in 1..Len(hist) : SimilarMatch(hist[k], invoice_data)})

MatchedSettled(hist, invoice_data) ==
    LET m == MatchedIndex(hist, invoice_data)
    IN  m # 0 /\ (hist[m].result.success \/ hist[m].result.error = ErrAlreadyProcessed)

\* DuplicateStatus without the look at email_sent.
DuplicateStatus_AlwaysFailed(record) == "failed"

\* duplicate_info.status of a failed or pending duplicate (no writer stores a "status").
DuplicateStatus(record) == IF record.result.email_sent THEN "pending" ELSE "failed"

\* process_payment: the duplicate check.
DuplicateCheck(r) ==
    /\ pc[r] = "dup_check"
    /\ settledDup' = [settledDup EXCEPT ![r] = MatchedSettled(history, inv[r])]
    /\ LET duplicate == IsDuplicateInvoice(history, inv[r], inv[r].email_data)
       IN  IF duplicate # <<>>
           THEN IF duplicate[1].result.success
                THEN Finish(r, Result(FALSE, ErrPrevProcessed, NONE, FALSE, NONE, "success"))
                ELSE Finish(r, Result(FALSE, duplicate[1].result.error, NONE, FALSE, NONE,
                                      DuplicateStatus(duplicate[1])))
           ELSE /\ pc' = [pc EXCEPT ![r] = "processed_check"]
                /\ UNCHANGED <<result, paid>>
    /\ UNCHANGED <<history, inv, balance, payee, calls, startLen>>

\* process_payment: the is_invoice_processed check.
ProcessedCheck(r) ==
    /\ pc[r] = "processed_check"
    /\ IF IsInvoiceProcessed(history, inv[r].invoice_number, inv[r].recipient)
       THEN Finish(r, Result(FALSE, ErrWasProcessed, NONE, FALSE, NONE, NONE))
       ELSE /\ pc' = [pc EXCEPT ![r] = "balance"]
            /\ UNCHANGED <<result, paid>>
    /\ UNCHANGED <<history, inv, balance, payee, calls, settledDup, startLen>>

\* BalanceCheck with the operands of the comparison swapped.
BalanceCheck_Swapped(r) ==
    /\ pc[r] = "balance"
    /\ \E response \in BalanceResponses :
         LET b == CheckBalance(response)
         IN  /\ balance' = [balance EXCEPT ![r] = b]
             /\ Logged(r, <<Call("get_balance", NONE)>>)
             /\ IF inv[r].paid_amount[1] < b
                THEN Finish(r, Result(FALSE, ErrInsufficient, NONE, FALSE, NONE, NONE))
                ELSE /\ pc' = [pc EXCEPT ![r] =
                              IF BankDetailsComplete(inv[r].bank_details)
                              THEN "bank_details" ELSE "search"]
                     /\ UNCHANGED <<result, paid>>
    /\ UNCHANGED <<history, inv, payee, settledDup, startLen>>

\* process_payment: the balance check.
BalanceCheck(r) ==
    /\ pc[r] = "balance"
    /\ \E response \in BalanceResponses :
         LET b == CheckBalance(response)
         IN  /\ balance' = [balance EXCEPT ![r] = b]
             /\ Logged(r, <<Call("get_balance", NONE)>>)
             /\ IF b < inv[r].paid_amount[1]
                THEN Finish(r, Result(FALSE, ErrInsufficient, NONE, FALSE, NONE, NONE))
                ELSE /\ pc' = [pc EXCEPT ![r] =
                              IF BankDetailsComplete(inv[r].bank_details)
                              THEN "bank_details" ELSE "search"]
                     /\ UNCHANGED <<result, paid>>
    /\ UNCHANGED <<history, inv, payee, settledDup, startLen>>

\* process_payment: the payment with the extracted bank details.  The params carry
\* "payment_destination", not "destination_id".
BankDetailsPayment(r) ==
    /\ pc[r] = "bank_details"
    /\ \E outcome \in SendOutcomes :
         LET params == [amount |-> inv[r].paid_amount[1],
                        payment_destination |-> inv[r].bank_details,
                        memo |-> inv[r].invoice_number]
             sent == SendPaymentTool(params, outcome)
         IN  /\ Logged(r, SendCalls("bank_details", sent, outcome))
             /\ IF sent.reference # NONE
                THEN Finish(r, Result(TRUE, NONE, sent.reference, FALSE, "bank_details", NONE))
                ELSE /\ pc' = [pc EXCEPT ![r] = "search"]
                     /\ UNCHANGED <<result, paid>>
    /\ UNCHANGED <<history, inv, balance, payee, settledDup, startLen>>

\* process_payment: search_or_create_payee.
PayeeSearch(r) ==
    /\ pc[r] = "search"
    /\ \E payees \in SearchResponses :
         /\ payee' = [payee EXCEPT ![r] = SearchOrCreatePayee(payees)]
         /\ pc' = [pc EXCEPT ![r] = IF SearchOrCreatePayee(payees) # NONE
                                     THEN "payee_payment" ELSE "request"]
    /\ Logged(r, <<Call("search_payees", inv[r].recipient)>>)
    /\ UNCHANGED <<history, inv, balance, result, settledDup, startLen, paid>>

\* process_payment: send_payment to the payee found.
PayeePayment(r) ==
    /\ pc[r] = "payee_payment"
    /\ \E outcome \in SendOutcomes :
         LET params == [amount |-> inv[r].paid_amount[1],
                        destination_id |-> payee[r],
                        memo |-> inv[r].invoice_number]
             sent == SendPaymentTool(params, outcome)
         IN  /\ Logged(r, SendCalls(payee[r], sent, outcome))
             /\ IF sent.reference # NONE
                THEN Finish(r, Result(TRUE, NONE, sent.reference, FALSE, "existing_payee", NONE))
                ELSE /\ pc' = [pc EXCEPT ![r] = "request"]
                     /\ UNCHANGED <<result, paid>>
    /\ UNCHANGED <<history, inv, balance, payee, settledDup, startLen>>

\* Error strings of send_bank_details_request.
ErrMissingThread == "Missing thread_id"
ErrMissingRecipient == "Missing recipient email"
ErrSendFailed == "Failed to send email"
ErrChannelRaised == "channel error"

\* send_bank_details_request with the recipient check left out.
SendBankDetailsRequest_NoRecipientCheck(thread_id, recipient, outcome) ==
    IF ~TruthyStr(thread_id)
    THEN [success |-> FALSE, error |-> ErrMissingThread, channel_called |-> FALSE]
    ELSE [success |-> (outcome = "sent"),
          error |-> (IF outcome = "sent" THEN NONE
                     ELSE IF outcome = "failed" THEN ErrSendFailed ELSE ErrChannelRaised),
          channel_called |-> TRUE]

\* send_bank_details_request: no call to the channel without thread_id or recipient;
\* success only for a success reply of the channel.
SendBankDetailsRequest(thread_id, recipient, outcome) ==
    IF ~TruthyStr(thread_id)
    THEN [success |-> FALSE, error |-> ErrMissingThread, channel_called |-> FALSE]
    ELSE IF ~TruthyStr(recipient)
    THEN [success |-> FALSE, error |-> ErrMissingRecipient, channel_called |-> FALSE]
    ELSE [success |-> (outcome = "sent"),
          error |-> (IF outcome = "sent" THEN NONE
                     ELSE IF outcome = "failed" THEN ErrSendFailed ELSE ErrChannelRaised),
          channel_called |-> TRUE]

\* The calls the bank-details request adds to the log: the request with what it was
\* given and what it returned, and the reply on the thread when the channel is reached.
RequestCalls(thread_id, recipient, email_result) ==
    <<Call("send_bank_details_request",
           [thread_id |-> thread_id, recipient |-> recipient,
            success |-> email_result.success, error |-> email_result.error])>> \o
    (IF email_result.channel_called THEN <<Call("reply_to_thread", thread_id)>> ELSE <<>>)

\* BankDetailsRequest reporting the e-mail as sent whatever the request returned.
BankDetailsRequest_AlwaysSent(r) ==
    /\ pc[r] = "request"
    /\ \E outcome \in ChannelOutcomes :
         LET email_result == SendBankDetailsRequest(inv[r].email_data.thread_id,
                                                    inv[r].email_data.sender, outcome)
         IN  /\ Logged(r, RequestCalls(inv[r].email_data.thread_id,
                                       inv[r].email_data.sender, email_result))
             /\ Finish(r, Result(FALSE, ErrBankRequired, NONE, TRUE, NONE, NONE))
    /\ UNCHANGED <<history, inv, balance, payee, settledDup, startLen>>

\* process_payment: the bank-details request and the final return.
BankDetailsRequest(r) ==
    /\ pc[r] = "request"
    /\ \E outcome \in ChannelOutcomes :
         LET email_result == SendBankDetailsRequest(inv[r].email_data.thread_id,
                                                    inv[r].email_data.sender, outcome)
         IN  /\ Logged(r, RequestCalls(inv[r].email_data.thread_id,
                                       inv[r].email_data.sender, email_result))
             /\ Finish(r, Result(FALSE, ErrBankRequired, NONE, email_result.success, NONE, NONE))
    /\ UNCHANGED <<history, inv, balance, payee, settledDup, startLen>>

\* The caller takes the result; the worker is free for the next invoice.  paid collects
\* the (message_id, attachment_id) of the runs that returned success.
Return(r) ==
    /\ pc[r] = "done"
    /\ pc' = [pc EXCEPT ![r] = "idle"]
    /\ inv' = [inv EXCEPT ![r] = NoInvoice]
    /\ balance' = [balance EXCEPT ![r] = 0]
    /\ payee' = [payee EXCEPT ![r] = NONE]
    /\ calls' = [calls EXCEPT ![r] = <<>>]
    /\ result' = [result EXCEPT ![r] = NoResult]
    /\ settledDup' = [settledDup EXCEPT ![r] = FALSE]
    /\ startLen' = [startLen EXCEPT ![r] = 0]
    /\ paid' = IF result[r].success THEN paid \cup {Key(inv[r])} ELSE paid
    /\ UNCHANGED history

\* ------------------------------------------------- history writers as operations
\* agents/payment_agent.save_payment_history, called by one process at a time.
SavePaymentHistory(email_data, invoice_data, res) ==
    /\ history' = AgentSave(history, email_data, invoice_data, res)
    /\ UNCHANGED <<pc, inv, balance, payee, calls, result, settledDup, startLen, paid>>

\* multi_agent.save_payment_history, called by one process at a time.
MultiSavePaymentHistory(email_data, invoice_data, res) ==
    /\ history' = MultiSave(history, email_data, invoice_data, res)
    /\ UNCHANGED <<pc, inv, balance, payee, calls, result, settledDup, startLen, paid>>

\* Both writers read the whole file, build the new list in memory and rewrite the file;
\* nothing locks the file between the read and the write.  svpc is the writer's position,
\* svbuf the list it is about to write, svimpl the implementation it runs.
VARIABLES svpc, svbuf, svimpl

\* api.pay_invoice: status and details are the status and extracted_details fields of
\* the invoice document in the store (details is what extract_text returned last), apc
\* is the position of the request and response its HTTP response.
VARIABLES status, apc, details, response

pvars == <<pc, inv, balance, payee, calls, result, settledDup, startLen, paid>>
svars == <<svpc, svbuf, svimpl>>
avars == <<status, apc, details, response>>

\* The components that run on their own: extraction is the last call of an invoice
\* extractor, with the implementation called, what it was given and what it returned.
VARIABLES extraction

\* workflow is the multi-agent workflow: the node to run, the state the last node
\* returned and the nodes run so far.  batch is a run of BatchPaymentsTool.
VARIABLES workflow, batch

cvars == <<extraction, workflow, batch>>
vars == <<history, pc, inv, balance, payee, calls, result, settledDup, startLen, paid,
          svpc, svbuf, svimpl, status, apc, details, response, extraction,
          workflow, batch>>

\* agents/payment_agent.save_payment_history up to the append: load, look for the
\* invoice, build the entry.  A match returns without writing.
AgentLoad(w, email_data, invoice_data, res) ==
    /\ svpc[w] = "idle"
    /\ LET loaded == history
           new == AgentSave(loaded, email_data, invoice_data, res)
       IN  IF new = loaded
           THEN UNCHANGED svars
           ELSE /\ svpc' = [svpc EXCEPT ![w] = "write"]
                /\ svbuf' = [svbuf EXCEPT ![w] = new]
                /\ svimpl' = [svimpl EXCEPT ![w] = "agent"]
    /\ UNCHANGED <<history, pvars, avars, cvars>>

\* multi_agent.save_payment_history up to the append.
MultiLoad(w, email_data, invoice_data, res) ==
    /\ svpc[w] = "idle"
    /\ LET new == MultiSave(history, email_data, invoice_data, res)
       IN  /\ svpc' = [svpc EXCEPT ![w] = "write"]
           /\ svbuf' = [svbuf EXCEPT ![w] = new]
           /\ svimpl' = [svimpl EXCEPT ![w] = "multi"]
    /\ UNCHANGED <<history, pvars, avars, cvars>>

\* json.dump(history, f): the file is replaced by the list built from the earlier read.
WriteHistory(w) ==
    /\ svpc[w] = "write"
    /\ history' = svbuf[w]
    /\ svpc' = [svpc EXCEPT ![w] = "idle"]
    /\ svbuf' = [svbuf EXCEPT ![w] = <<>>]
    /\ svimpl' = [svimpl EXCEPT ![w] = NONE]
    /\ UNCHANGED <<pvars, avars, cvars>>

\* The history file is damaged from outside the program: its content is replaced by
\* something json.load rejects, or a record without the expected fields gets into it.
CorruptFile ==
    /\ Readable(history)
    /\ history' = <<UnparsableFile>>
    /\ UNCHANGED <<pvars, svars, avars, cvars>>

DamageRecord ==
    /\ Readable(history)
    /\ history' = Append(history, MalformedRecord)
    /\ UNCHANGED <<pvars, svars, avars, cvars>>

\* ------------------------------------------------------------ api.pay_invoice
\* What extract_text returns: the extracted fields, or a dict with "error".
ExtractError == [error |-> "Extraction failed"]
ExtractedDetails == [invoice_number : InvoiceNumbers, paid_amount : PaidAmounts,
                     recipient : Recipients, bank_details : BankDetails]
ExtractResults == ExtractedDetails \cup {ExtractError}
NoDetails == [error |-> NONE]

\* The HTTP response: the status code and which raise or return produced it.
Response(code, detail) == [code |-> code, detail |-> detail]
NoResponse == Response(0, NONE)

\* The checks and the download of pay_invoice before the status update.
Prechecks == {"no_customer_id", "not_found", "not_authorized", "no_file_path",
              "download_failed", "ok"}
PrecheckResponse(precheck) ==
    IF precheck = "not_found" THEN Response(404, "Invoice not found")
    ELSE IF precheck = "not_authorized" THEN Response(403, "Not authorized to access this invoice")
    ELSE IF precheck = "download_failed" THEN Response(500, "Failed to download invoice file")
    ELSE IF precheck = "no_customer_id" THEN Response(400, "Customer ID not found in token")
    ELSE Response(400, "Invoice file path not found")

\* The dict pay_invoice hands to process_payment.  extract_text returns the extracted
\* fields under "payment_info", so every payment_details.get(...) of pay_invoice is None
\* (bank_details is {}); the amount would go under "amount", and "paid_amount", "date"
\* and "email_data" are absent.
ApiInvoice(payment_details) ==
    [invoice_number |-> NONE, paid_amount |-> NoAmount,
     recipient |-> NONE, date |-> NONE,
     bank_details |-> NoBank,
     email_data |-> [thread_id |-> NONE, message_id |-> NONE,
                     sender |-> NONE, attachment_id |-> NONE]]

\* pay_invoice up to the status update: a failed check or download raises before it.
PayInvoiceBegin ==
    /\ apc \in {"idle", "responded"}
    /\ \E precheck \in Prechecks :
         IF precheck = "ok"
         THEN /\ status' = "processing"
              /\ apc' = "extract"
              /\ response' = NoResponse
         ELSE /\ response' = PrecheckResponse(precheck)
              /\ apc' = "responded"
              /\ UNCHANGED status
    /\ UNCHANGED <<history, pvars, svars, cvars, details>>

\* pay_invoice: extract_text; an error raises HTTPException(500).
PayInvoiceExtract ==
    /\ apc = "extract"
    /\ \E payment_details \in ExtractResults :
         IF payment_details = ExtractError
         THEN /\ response' = Response(500, "Failed to extract payment details")
              /\ apc' = "responded"
              /\ UNCHANGED details
         ELSE /\ details' = payment_details
              /\ apc' = "payment"
              /\ UNCHANGED response
    /\ UNCHANGED <<history, pvars, svars, cvars, status>>

\* pay_invoice: the call of process_payment.
PayInvoiceProcess ==
    /\ apc = "payment"
    /\ Start(1, ApiInvoice(details))
    /\ apc' = "await"
    /\ UNCHANGED <<svars, cvars, status, details, response>>

\* pay_invoice: process_payment has returned; a failure raises HTTPException(500), a
\* success updates the status to paid and returns.
PayInvoiceRespond ==
    /\ apc = "await"
    /\ Return(1)
    /\ IF result[1].success
       THEN /\ status' = "paid"
            /\ response' = Response(200, "Payment processed successfully")
       ELSE /\ response' = Response(500, "Payment processing failed")
            /\ UNCHANGED status
    /\ apc' = "responded"
    /\ UNCHANGED <<svars, cvars, details>>


\* The document a request finds in the invoices collection may be one whose status is
\* paid: the status is read from the store, where the final update of pay_invoice
\* writes it.
PaidDocument ==
    /\ apc \in {"idle", "responded"}
    /\ status # "paid"
    /\ status' = "paid"
    /\ UNCHANGED <<history, pvars, svars, cvars, apc, details, response>>

\* ------------------------------------------------------------ invoice extractors
\* What the extraction service answers to agents/pdf_agent.PaymentExtractor.extract: with
\* or without a function call, whose arguments have or lack (NONE, NoAmount) the payee
\* name, the payee contact type, the amount and the invoice number.
LlmOutputs == [has_call : BOOLEAN, name : {NONE, "", "acme"}, contact_type : {NONE, "business"},
               amount : {NoAmount, <<0>>, <<2>>}, number : {NONE, "INV1"}]

Extracted(ok, error, recipient, amount) ==
    [ok |-> ok, error |-> error, recipient |-> recipient, amount |-> amount]

\* PaymentExtractor.extract: extracted["payee"]["name"] and the other three subscripts
\* raise KeyError on an absent key, which the except branch turns into an error dict.
PaymentExtractorExtract(out) ==
    IF ~out.has_call THEN Extracted(FALSE, "No valid extraction", NONE, NoAmount)
    ELSE IF \/ out.number = NONE \/ out.amount = NoAmount
            \/ out.name = NONE \/ out.contact_type = NONE
    THEN Extracted(FALSE, "Extraction failed", NONE, NoAmount)
    ELSE Extracted(TRUE, NONE, out.name, out.amount)

\* What the patterns of InvoicePaymentProcessor.extract_payment_info_from_text find in a
\* text: the amount and recipient of the field patterns, the largest number on a total
\* line and the first name-like line of the fall-back searches (NONE, NoAmount: no match).
TextMatches == [pattern_amount : {NoAmount, <<0>>, <<2>>}, total_amount : {NoAmount, <<0>>, <<2>>},
                pattern_recipient : {NONE, "A", "acme"}, name_like : {NONE, "Acme Corp"}]

UnknownRecipient == "UNKNOWN RECIPIENT"

\* extract_payment_info_from_text: a pattern amount counts when positive and a pattern
\* recipient when longer than one character; the fall-backs fill what is missing; the
\* payment is built with defaults and dropped (None) only for an amount <= 0.
ExtractPaymentInfoFromText(text) ==
    LET amount == IF text.pattern_amount # NoAmount /\ text.pattern_amount[1] > 0
                  THEN text.pattern_amount
                  ELSE IF text.total_amount # NoAmount THEN text.total_amount ELSE <<0>>
        recipient == IF text.pattern_recipient \notin {NONE, "A"} THEN text.pattern_recipient
                     ELSE IF text.name_like # NONE THEN text.name_like
                     ELSE UnknownRecipient
    IN  IF amount[1] <= 0 THEN Extracted(FALSE, NONE, NONE, NoAmount)
        ELSE Extracted(TRUE, NONE, recipient, amount)

NoExtraction == [impl |-> NONE]

\* A call of PaymentExtractor.extract.
ExtractWithAgent(out) ==
    /\ extraction' = [impl |-> "pdf_agent", input |-> out, output |-> PaymentExtractorExtract(out)]
    /\ UNCHANGED <<history, pvars, svars, avars, workflow, batch>>

\* A call of InvoicePaymentProcessor.extract_payment_info_from_text.
ExtractWithProcessor(text) ==
    /\ extraction' = [impl |-> "processor", input |-> text,
                      output |-> ExtractPaymentInfoFromText(text)]
    /\ UNCHANGED <<history, pvars, svars, avars, workflow, batch>>


\* ------------------------------------------------------- multi-agent workflow
Nodes == {"email_processor", "pdf_processor", "payment_processor", "__end__"}

\* The words get_next_node looks for in the lower-cased content of the last message.  A
\* message is modelled by the set of these words its content contains.
RouterWords == {"error", "pdf", "payment", "final"}

\* A text that comes from outside the node (the error of process_emails, the text of an
\* exception) may contain any of the words.
AnyText == SUBSET RouterWords

\* The AgentState a node returns: the words of its last message, the next field, and
\* the lengths of the emails and pdf_results lists of data (0 when absent).
AgentState(words, next, emails, pdf_results) ==
    [words |-> words, next |-> next, emails |-> emails, pdf_results |-> pdf_results]

\* get_next_node: the probability of each node (1 for 1.0, 0 for 0.0).
GetNextNode(state) ==
    LET node == IF "error" \in state.words THEN "__end__"
                ELSE IF "pdf" \in state.words THEN "pdf_processor"
                ELSE IF "payment" \in state.words THEN "payment_processor"
                ELSE IF "final" \in state.words THEN "__end__"
                ELSE state.next
    IN  [n \in Nodes |-> IF n = node THEN 1 ELSE 0]

\* The results of the tools a node calls, as the node tells them apart.
\* For email_node: process_emails failed, raised, or returned n e-mails.  For pdf_node:
\* an exception, or n attachments extracted.  For payment_node: an exception, no payment
\* succeeded, or one did.
EmailOutcomes == {"failed", "raised", "returned"}
PdfOutcomes == {"raised", "returned"}
PaymentOutcomes == {"none", "paid", "raised"}
Counts == 0..MaxEmails

\* email_node: the state it returns.
EmailNodeState(state, outcome, n, text) ==
    CASE outcome = "failed" ->
           \* "Email processing failed: {error}"
           AgentState(text, "__end__", state.emails, state.pdf_results)
      [] outcome = "raised" ->
           \* "Error in email processing: {e}"
           AgentState({"error"} \cup text, "__end__", state.emails, state.pdf_results)
      [] outcome = "returned" /\ n = 0 ->
           \* "No invoice emails found"
           AgentState({}, "__end__", state.emails, state.pdf_results)
      [] OTHER ->
           \* "Found N invoice emails with attachments. Moving to PDF processing."
           AgentState({"pdf"}, "pdf_processor", n, state.pdf_results)

\* pdf_node: the state it returns.
PdfNodeState(state, outcome, n, text) ==
    IF state.emails = 0
    THEN \* "No emails to process"
         AgentState({}, "__end__", state.emails, state.pdf_results)
    ELSE CASE outcome = "raised" ->
                \* "Error in PDF processing: {e}"
                AgentState({"error", "pdf"} \cup text, "__end__", state.emails, state.pdf_results)
           [] outcome = "returned" /\ n = 0 ->
                \* "No invoice data extracted from PDFs"
                AgentState({"pdf"}, "__end__", state.emails, state.pdf_results)
           [] OTHER ->
                \* "Extracted data from N PDFs. Moving to payment processing."
                AgentState({"pdf", "payment"}, "payment_processor", state.emails, n)

\* payment_node: the state it returns.  process_payment returns no "data" key, so a
\* successful payment raises KeyError at payment["data"] and ends in the except branch
\* ("Error in payment processing: 'data'").
PaymentNodeState(state, outcome, text) ==
    IF state.pdf_results = 0
    THEN \* "No invoice data to process payments"
         AgentState({"payment"}, "__end__", state.emails, state.pdf_results)
    ELSE CASE outcome = "none" ->
                \* "No payments processed"
                AgentState({"payment"}, "__end__", state.emails, state.pdf_results)
           [] outcome = "paid" ->
                AgentState({"error", "payment"}, "__end__", state.emails, state.pdf_results)
           [] OTHER ->
                \* "Error in payment processing: {e}"
                AgentState({"error", "payment"} \cup text, "__end__",
                           state.emails, state.pdf_results)

\* The workflow before its first node: the entry node is email_processor.
NoWorkflow == [at |-> "email_processor", state |-> AgentState({}, NONE, 0, 0),
               visited |-> <<>>]

\* A node runs; the node get_next_node gives probability 1 runs next.
RunNode(node, state) ==
    /\ workflow.at = node
    /\ Len(workflow.visited) < MaxVisits
    /\ workflow' = [at |-> CHOOSE n \in Nodes : GetNextNode(state)[n] = 1,
                    state |-> state,
                    visited |-> Append(workflow.visited, node)]
    /\ UNCHANGED <<history, pvars, svars, avars, extraction, batch>>

EmailNode(outcome, n, text) ==
    RunNode("email_processor", EmailNodeState(workflow.state, outcome, n, text))

PdfNode(outcome, n, text) ==
    RunNode("pdf_processor", PdfNodeState(workflow.state, outcome, n, text))

PaymentNode(outcome, text) ==
    RunNode("payment_processor", PaymentNodeState(workflow.state, outcome, text))

\* ------------------------------------------------------- BatchPaymentsTool
\* The batches handed to the tool: lists of payments, each with its id and amount.
BatchAmounts == {1, 2}
Batches == UNION {{[k \in 1..n |-> [id |-> k, amount |-> f[k]]] : f \in [1..n -> BatchAmounts]} :
                     n \in 0..MaxBatch}

\* sum(p.amount for p in payments)
RECURSIVE TotalAmount(_)
TotalAmount(payments) ==
    IF payments = <<>> THEN 0
    ELSE payments[1].amount + TotalAmount(Tail(payments))

\* What search_payees answers for one payment: no payee, a first entry that is no payee
\* data, a payee without id, a payee, or an exception of the client.
BatchSearchOutcomes == {"none", "invalid", "no_id", "found", "raised"}
\* What send_payment answers: a reference, a response without one, or an exception.
BatchSendOutcomes == {"ref1", NONE, "raised"}

PaymentResult(payment, state, reference, error) ==
    [payment_id |-> payment.id, amount |-> payment.amount, status |-> state,
     reference |-> reference, error |-> error]

NoBatch == [pc |-> "idle", payments |-> <<>>, balance |-> 0, k |-> 0,
            results |-> <<>>, calls |-> <<>>, output |-> NONE]

\* _run up to the loop: the total, the balance request and the check against the total.
\* An exception of the balance request is turned into an error string by safe_api_call.
BatchBeginState(payments, spendable, raised) ==
    LET begun == [NoBatch EXCEPT !.payments = payments, !.balance = spendable,
                                 !.calls = <<Call("get_balance", 0)>>]
    IN  IF raised
        THEN [begun EXCEPT !.pc = "done", !.output = "error"]
        ELSE IF spendable < TotalAmount(payments)
        THEN [begun EXCEPT !.pc = "done", !.output = "insufficient_funds"]
        ELSE [begun EXCEPT !.pc = "loop", !.k = 1]

\* One round of the loop, which stops on the first failed payment instead of going on.
BatchPaymentState_StopOnFailure(b, search, send) ==
    LET payment == b.payments[b.k]
        searched == Append(b.calls, Call("search_payees", b.k))
        dispatched == Append(searched, Call("provider_send_payment", b.k))
        Failed(error, cs) == [b EXCEPT !.results = Append(@, PaymentResult(payment, "failed", NONE, error)),
                                       !.calls = cs, !.pc = "done", !.output = "summary"]
    IN  CASE search = "none" -> Failed("Payee not found", searched)
          [] search = "invalid" -> Failed("Invalid payee data", searched)
          [] search = "no_id" -> Failed("Missing payee ID", searched)
          [] search = "raised" -> Failed("exception", searched)
          [] OTHER ->
               IF send = "raised" THEN Failed("exception", dispatched)
               ELSE [b EXCEPT !.results = Append(@, PaymentResult(payment, "success",
                                                   IF send = NONE THEN "Unknown" ELSE send, NONE)),
                              !.calls = dispatched, !.k = @ + 1]

\* One round of the loop: the payee search, the tests on its answer, the dispatch; each
\* path appends one result and goes on with the next payment.
BatchPaymentState(b, search, send) ==
    LET payment == b.payments[b.k]
        searched == Append(b.calls, Call("search_payees", b.k))
        dispatched == Append(searched, Call("provider_send_payment", b.k))
        Failed(error, cs) == [b EXCEPT !.results = Append(@, PaymentResult(payment, "failed", NONE, error)),
                                       !.calls = cs, !.k = @ + 1]
    IN  CASE search = "none" -> Failed("Payee not found", searched)
          [] search = "invalid" -> Failed("Invalid payee data", searched)
          [] search = "no_id" -> Failed("Missing payee ID", searched)
          [] search = "raised" -> Failed("exception", searched)
          [] OTHER ->
               IF send = "raised" THEN Failed("exception", dispatched)
               ELSE [b EXCEPT !.results = Append(@, PaymentResult(payment, "success",
                                                   IF send = NONE THEN "Unknown" ELSE send, NONE)),
                              !.calls = dispatched, !.k = @ + 1]

\* A call of BatchPaymentsTool._run.
BatchBegin(payments, spendable, raised) ==
    /\ batch.pc = "idle"
    /\ batch' = BatchBeginState(payments, spendable, raised)
    /\ UNCHANGED <<history, pvars, svars, avars, extraction, workflow>>

BatchPayment(search, send) ==
    /\ batch.pc = "loop"
    /\ batch.k <= Len(batch.payments)
    /\ batch' = BatchPaymentState(batch, search, send)
    /\ UNCHANGED <<history, pvars, svars, avars, extraction, workflow>>

\* After the loop: the final balance request and the summary of the results.
BatchFinish ==
    /\ batch.pc = "loop"
    /\ batch.k > Len(batch.payments)
    /\ batch' = [batch EXCEPT !.pc = "done", !.output = "summary",
                              !.calls = Append(@, Call("get_balance", 0))]
    /\ UNCHANGED <<history, pvars, svars, avars, extraction, workflow>>


\* ------------------------------------------------------------ specifications
Init ==
    /\ history = <<>>
    /\ pc = [r \in Workers |-> "idle"]
    /\ inv = [r \in Workers |-> NoInvoice]
    /\ balance = [r \in Workers |-> 0]
    /\ payee = [r \in Workers |-> NONE]
    /\ calls = [r \in Workers |-> <<>>]
    /\ result = [r \in Workers |-> NoResult]
    /\ settledDup = [r \in Workers |-> FALSE]
    /\ startLen = [r \in Workers |-> 0]
    /\ paid = {}
    /\ svpc = [w \in Workers |-> "idle"]
    /\ svbuf = [w \in Workers |-> <<>>]
    /\ svimpl = [w \in Workers |-> NONE]
    /\ status = "pending"
    /\ apc = "idle"
    /\ details = NoDetails
    /\ response = NoResponse
    /\ extraction = NoExtraction
    /\ workflow = NoWorkflow
    /\ batch = NoBatch

\* One worker processes one invoice at a time; history records are written by
\* whoever calls a writer.
Step(r) ==
    \/ DuplicateCheck(r) /\ UNCHANGED <<svars, avars, cvars>>
    \/ ProcessedCheck(r) /\ UNCHANGED <<svars, avars, cvars>>
    \/ BalanceCheck(r) /\ UNCHANGED <<svars, avars, cvars>>
    \/ BankDetailsPayment(r) /\ UNCHANGED <<svars, avars, cvars>>
    \/ PayeeSearch(r) /\ UNCHANGED <<svars, avars, cvars>>
    \/ PayeePayment(r) /\ UNCHANGED <<svars, avars, cvars>>
    \/ BankDetailsRequest(r) /\ UNCHANGED <<svars, avars, cvars>>
    \/ Return(r) /\ UNCHANGED <<svars, avars, cvars>>

Next ==
    \/ \E i \in Invoices : Start(1, i) /\ UNCHANGED <<svars, avars, cvars>>
    \/ Step(1)
    \/ \E i \in SaveInvoices, res \in SaveResults :
          SavePaymentHistory(i.email_data, i, res) /\ UNCHANGED <<svars, avars, cvars>>

Spec == Init /\ [][Next]_vars

\* Two workers run the pipeline at the same time on the invoice of one e-mail
\* attachment (with or without inline bank details).
ConcInvoices == {i \in ValidInvoices :
                   i.email_data.message_id = "m1" /\ i.invoice_number = "INV1"}

NextConc ==
    \/ \E r \in Workers, i \in ConcInvoices : Start(r, i) /\ UNCHANGED <<svars, avars, cvars>>
    \/ \E r \in Workers : Step(r)
    \/ \E i \in ConcInvoices \cap SaveInvoices, res \in SaveResults :
          SavePaymentHistory(i.email_data, i, res) /\ UNCHANGED <<svars, avars, cvars>>

SpecConc == Init /\ [][NextConc]_vars

\* One process calls the two history writers, one call after the other.
NextSave ==
    \/ \E i \in SaveInvoices, res \in SaveResults :
          SavePaymentHistory(i.email_data, i, res) /\ UNCHANGED <<svars, avars, cvars>>
    \/ \E i \in SaveInvoices, res \in SaveResults :
          MultiSavePaymentHistory(i.email_data, i, res) /\ UNCHANGED <<svars, avars, cvars>>

SpecSave == Init /\ [][NextSave]_vars

\* Two processes call the history writers at the same time, for the invoices of two
\* e-mails, with a paid or a pending outcome.
StoreInvoices == {i \in SaveInvoices :
                    \/ i.email_data.message_id = "m1" /\ i.invoice_number = "INV1"
                    \/ i.email_data.message_id = "m2" /\ i.invoice_number = "INV2"}
StoreResults == {res \in SaveResults : res.error # ErrAlreadyProcessed}

NextStore ==
    \/ \E w \in Workers, i \in StoreInvoices, res \in StoreResults :
          AgentLoad(w, i.email_data, i, res)
    \/ \E w \in Workers, i \in StoreInvoices, res \in StoreResults :
          MultiLoad(w, i.email_data, i, res)
    \/ \E w \in Workers : WriteHistory(w)

SpecStore == Init /\ [][NextStore]_vars

\* One process runs the pipeline on the invoice INV1, which arrived in two e-mails,
\* while the attempts on it are recorded by either history writer.
DupInvoices == {i \in ValidInvoices : i.invoice_number = "INV1"}
DupResults == {Result(TRUE, NONE, "ref1", FALSE, "existing_payee", NONE),
               Result(FALSE, ErrInsufficient, NONE, FALSE, NONE, NONE),
               Result(FALSE, ErrBankRequired, NONE, TRUE, NONE, NONE)}

NextDup ==
    \/ \E i \in DupInvoices : Start(1, i) /\ UNCHANGED <<svars, avars, cvars>>
    \/ Step(1)
    \/ \E i \in DupInvoices \cap SaveInvoices, res \in DupResults :
          SavePaymentHistory(i.email_data, i, res) /\ UNCHANGED <<svars, avars, cvars>>
    \/ \E i \in DupInvoices \cap SaveInvoices, res \in DupResults :
          MultiSavePaymentHistory(i.email_data, i, res) /\ UNCHANGED <<svars, avars, cvars>>

SpecDup == Init /\ [][NextDup]_vars

\* One process runs the pipeline on invoices whose e-mail may lack the thread id or the
\* sender (absent or empty).
RequestEmails == [thread_id : {NONE, "", "t1"}, message_id : {"m1"},
                  sender : {NONE, "", "vendor@x"}, attachment_id : AttachmentIds]
RequestInvoices == [invoice_number : {"INV1"}, paid_amount : {<<2>>},
                    recipient : Recipients, date : Dates,
                    bank_details : BankDetails, email_data : RequestEmails]

NextRequest ==
    \/ \E i \in RequestInvoices : Start(1, i) /\ UNCHANGED <<svars, avars, cvars>>
    \/ Step(1)

SpecRequest == Init /\ [][NextRequest]_vars

\* Requests to pay_invoice for one invoice document, one request at a time.
NextApi ==
    \/ PayInvoiceBegin
    \/ PayInvoiceExtract
    \/ PayInvoiceProcess
    \/ PayInvoiceRespond

SpecApi == Init /\ [][NextApi]_vars

\* One process runs the pipeline on the invoice INV1 of message m1 while the attempts on
\* the invoices of both messages are recorded by agents/payment_agent's writer.
MatchInvoices == {i \in ValidInvoices :
                    i.email_data.message_id = "m1" /\ i.invoice_number = "INV1"}

NextMatch ==
    \/ \E i \in MatchInvoices : Start(1, i) /\ UNCHANGED <<svars, avars, cvars>>
    \/ Step(1)
    \/ \E i \in SaveInvoices, res \in SaveResults :
          SavePaymentHistory(i.email_data, i, res) /\ UNCHANGED <<svars, avars, cvars>>

SpecMatch == Init /\ [][NextMatch]_vars

\* One process runs the pipeline on invoices whose extracted bank details have any of
\* the four fields present or empty.
AnyBankDetails == [account_holder_name : {"", "acme"}, account_number : {"", "123"},
                   routing_number : {"", "456"}, account_type : {"", "checking"}]
BankInvoices == {[i EXCEPT !.bank_details = b] :
                   i \in {j \in MatchInvoices : j.bank_details = NoBank}, b \in AnyBankDetails}

NextBank ==
    \/ \E i \in BankInvoices : Start(1, i) /\ UNCHANGED <<svars, avars, cvars>>
    \/ Step(1)

SpecBank == Init /\ [][NextBank]_vars

\* The two extractors are called on whatever the extraction service or the text yields.
NextExtract ==
    \/ \E out \in LlmOutputs : ExtractWithAgent(out)
    \/ \E text \in TextMatches : ExtractWithProcessor(text)

SpecExtract == Init /\ [][NextExtract]_vars

\* One process runs the pipeline and records attempts while the history file can get
\* damaged.
NextCorrupt ==
    \/ \E i \in MatchInvoices : Start(1, i) /\ UNCHANGED <<svars, avars, cvars>>
    \/ Step(1)
    \/ \E i \in SaveInvoices, res \in StoreResults :
          SavePaymentHistory(i.email_data, i, res) /\ UNCHANGED <<svars, avars, cvars>>
    \/ CorruptFile
    \/ DamageRecord

SpecCorrupt == Init /\ [][NextCorrupt]_vars

\* multi_agent.save_payment_history on payments whose e-mail part may lack the message
\* id or the thread id (email_data.get("message_id") or email.get("message_id") is None).
MultiEmails == {e \in [thread_id : ThreadIds \cup {NONE}, message_id : MessageIds \cup {NONE},
                       sender : Senders, attachment_id : {NONE}] :
                  e.message_id # NONE /\ e.thread_id # NONE
                      => e.thread_id = ThreadOf(e.message_id)}
MultiInvoices == {i \in SaveInvoices : i.email_data.message_id = "m1"}

NextMulti ==
    \E e \in MultiEmails, i \in MultiInvoices, res \in StoreResults :
        MultiSavePaymentHistory(e, i, res) /\ UNCHANGED <<svars, avars, cvars>>

SpecMulti == Init /\ [][NextMulti]_vars

\* agents/payment_agent.save_payment_history alone, from the empty history, on e-mails
\* and invoices whose dicts may lack the attachment_id and the date.
AgentSaveEmails == [thread_id : {"t1"}, message_id : MessageIds, sender : Senders,
                    attachment_id : AttachmentIds \cup {ABSENT}]
AgentSaveInvoices == [invoice_number : {"INV1", "INV2"}, paid_amount : {<<2>>},
                      recipient : Recipients, date : Dates \cup {ABSENT},
                      bank_details : {NoBank}, email_data : {CHOOSE e \in EmailData : TRUE}]
AgentSaveResult == Result(FALSE, ErrBankRequired, NONE, TRUE, NONE, NONE)

NextAgentSave ==
    \E e \in AgentSaveEmails, i \in AgentSaveInvoices :
        /\ Len(history) < MaxRecords
        /\ SavePaymentHistory(e, i, AgentSaveResult)
        /\ UNCHANGED <<svars, avars, cvars>>

SpecAgentSave == Init /\ [][NextAgentSave]_vars

\* pay_invoice requests on a document that may have been paid.
NextPaid ==
    \/ PaidDocument
    \/ PayInvoiceBegin
    \/ PayInvoiceExtract
    \/ PayInvoiceProcess
    \/ PayInvoiceRespond

SpecPaid == Init /\ [][NextPaid]_vars

\* The multi-agent workflow, on whatever its tools return.
NextWorkflow ==
    \/ \E outcome \in EmailOutcomes, n \in Counts, text \in AnyText : EmailNode(outcome, n, text)
    \/ \E outcome \in PdfOutcomes, n \in Counts, text \in AnyText : PdfNode(outcome, n, text)
    \/ \E outcome \in PaymentOutcomes, text \in AnyText : PaymentNode(outcome, text)

SpecWorkflow == Init /\ [][NextWorkflow]_vars

\* BatchPaymentsTool on whatever batch it is given and whatever the provider answers.
NextBatch ==
    \/ \E payments \in Batches, spendable \in Balances, raised \in BOOLEAN :
          BatchBegin(payments, spendable, raised)
    \/ \E search \in BatchSearchOutcomes, send \in BatchSendOutcomes :
          BatchPayment(search, send)
    \/ BatchFinish

SpecBatch == Init /\ [][NextBatch]_vars

\* ------------------------------------------------------------------ properties
Ops(r) == {calls[r][k].op : k \in 1..Len(calls[r])}
DispatchOps == {"send_payment_tool", "provider_send_payment"}
BalanceChecked(r) == "get_balance" \in Ops(r)
PastDuplicateChecks(r) ==
    pc[r] \in {"balance", "bank_details", "search", "payee_payment", "request"}
      \/ (pc[r] = "done" /\ Ops(r) # {})

\* C1: of two runs made one after the other on invoices with the same (message_id,
\* attachment_id) at most one pays: a run on a key that an earlier run has paid ends
\* without success and without a payment dispatch.
C1_IdempotentPerKey ==
    \A r \in Workers :
        (pc[r] # "idle" /\ Key(inv[r]) \in paid)
            => /\ ~result[r].success
               /\ "provider_send_payment" \notin Ops(r)

\* C2: a run that ends in a terminal or paused outcome (anything but the duplicate
\* short-circuit) has appended exactly one history record, whose result.success is the
\* success flag it returns.
C2_EveryRunWritesHistory ==
    \A r \in Workers :
        (/\ pc[r] = "done"
         /\ result[r].duplicate_info = NONE
         /\ result[r].error # ErrWasProcessed)
            => /\ Len(history) = startLen[r] + 1
               /\ history[Len(history)].result.success = result[r].success

\* C3: when the record the lookup matched (exact, else similar) is settled, the run
\* stops with a previously-processed failure and has made no provider call.
C3_SettledDuplicateStops ==
    \A r \in Workers :
        settledDup[r]
            => /\ Ops(r) = {}
               /\ ~PastDuplicateChecks(r)
               /\ pc[r] = "done" => (/\ ~result[r].success
                                     /\ result[r].error \in {ErrPrevProcessed, ErrWasProcessed})

\* C4: an invoice whose amount is absent, zero or negative, or whose invoice_number is
\* empty, ends in the validation failure with no provider call.
C4_InvalidInvoiceFails ==
    \A r \in Workers :
        (/\ pc[r] # "idle"
         /\ \/ inv[r].paid_amount = NoAmount
            \/ inv[r].paid_amount[1] <= 0
            \/ inv[r].invoice_number = "")
            => /\ Ops(r) = {}
               /\ pc[r] = "done" => (~result[r].success /\ result[r].error = ErrMissing)

\* C5: in a run whose checked balance is less than the invoice amount there is no payee
\* search and no payment dispatch, the run ends with the insufficient-funds failure, and
\* in every run the balance query precedes any search or dispatch.
C5_FundsFirst ==
    \A r \in Workers :
        /\ (BalanceChecked(r) /\ balance[r] < inv[r].paid_amount[1])
              => /\ pc[r] = "done"
                 /\ ~result[r].success
                 /\ result[r].error = ErrInsufficient
                 /\ Ops(r) = {"get_balance"}
        /\ \A k \in 1..Len(calls[r]) :
              calls[r][k].op \in (DispatchOps \cup {"search_payees"})
                => \E j \in 1..(k - 1) : calls[r][j].op = "get_balance"

C5_Witness ==
    \E r \in Workers :
        /\ pc[r] = "done"
        /\ BalanceChecked(r)
        /\ balance[r] < inv[r].paid_amount[1]
        /\ balance[r] > 0

\* C6: a run that finds the balance insufficient has asked the provider for a checkout
\* URL for the shortfall (amount minus balance).
C6_CheckoutRequested ==
    \A r \in Workers :
        (pc[r] = "done" /\ result[r].error = ErrInsufficient)
            => \E k \in 1..Len(calls[r]) :
                  /\ calls[r][k].op = "initiate_deposit"
                  /\ calls[r][k].arg = inv[r].paid_amount[1] - balance[r]

\* C7: a run on an invoice with complete inline bank details makes no payee search and
\* dispatches no payment to a payee id of the provider search.
C7_BankDetailsPriority ==
    \A r \in Workers :
        (pc[r] # "idle" /\ BankDetailsComplete(inv[r].bank_details))
            => /\ "search_payees" \notin Ops(r)
               /\ \A k \in 1..Len(calls[r]) :
                     calls[r][k].op \in DispatchOps => calls[r][k].arg \notin PayeeIds

\* C8: two concurrent runs on the same (message_id, attachment_id) are never both past
\* the duplicate checks while the history has no record of that key, and never both
\* dispatch a payment.
C8_DuplicateCheckSerialized ==
    \A r1, r2 \in Workers :
        (r1 # r2 /\ pc[r1] # "idle" /\ pc[r2] # "idle" /\ Key(inv[r1]) = Key(inv[r2]))
            => /\ ~ /\ PastDuplicateChecks(r1)
                    /\ PastDuplicateChecks(r2)
                    /\ \A k \in 1..Len(history) : ~ExactMatch(history[k], inv[r1].email_data)
               /\ ~ /\ "provider_send_payment" \in Ops(r1)
                    /\ "provider_send_payment" \in Ops(r2)

\* C9: a write of agents/payment_agent.save_payment_history that interleaves with
\* another writer loses no record of a different invoice: every record in the file
\* before the write that matches the written invoice on neither key is in the file
\* afterwards.
C9_NoLostAppend ==
    [][\A w \in Workers :
          (svpc[w] = "write" /\ svimpl[w] = "agent" /\ svpc'[w] = "idle")
            => LET new == svbuf[w][Len(svbuf[w])]
               IN  \A k \in 1..Len(history) :
                      (/\ ~ExactMatch(history[k], new.email_data)
                       /\ ~SimilarMatch(history[k], new.invoice_data))
                         => \E j \in 1..Len(history') : history'[j] = history[k]]_vars

RECURSIVE IsSubseqFrom(_, _, _, _)
\* a[i..] is a subsequence of b[j..]
IsSubseqFrom(a, i, b, j) ==
    IF i > Len(a) THEN TRUE
    ELSE IF j > Len(b) THEN FALSE
    ELSE IF a[i] = b[j] THEN IsSubseqFrom(a, i + 1, b, j + 1)
    ELSE IsSubseqFrom(a, i, b, j + 1)

\* C10: the history is append-only: after every step the records that were in it are
\* still in it, unchanged and in the same relative order.
C10_AppendOnly == [][IsSubseqFrom(history, 1, history', 1)]_vars

\* The last index of a set of list positions, 0 if the set is empty.
LastIndex(S) == IF S = {} THEN 0 ELSE CHOOSE k \in S : \A j \in S : j <= k

\* The matching record appended last: the last exact match, else the last similar one.
LatestMatch(hist, invoice_data) ==
    LET e == LastIndex({k \in 1..Len(hist) : ExactMatch(hist[k], invoice_data.email_data)})
    IN  IF e # 0 THEN e
        ELSE LastIndex({k \in 1..Len(hist) : SimilarMatch(hist[k], invoice_data)})

IsSettled(record) == record.result.success \/ record.result.error = ErrAlreadyProcessed

\* C11: when records of the history match the invoice, the duplicate check treats the
\* invoice as settled exactly when the matching record appended last is settled, and as
\* a retryable duplicate exactly when that record is a failed or pending attempt.
C11_LatestMatchDecides ==
    [][\A r \in Workers :
          (/\ pc[r] = "dup_check"
           /\ pc'[r] # "dup_check"
           /\ LatestMatch(history, inv[r]) # 0)
            => (IsSettled(history[LatestMatch(history, inv[r])])
                  <=> pc'[r] = "processed_check")]_vars

\* The calls of a run that reached client.payments.send_payment, and those of them that
\* returned no reference (a dispatch that returns a reference ends the run at once).
ProviderDispatches(r) ==
    Cardinality({k \in 1..Len(calls[r]) : calls[r][k].op = "provider_send_payment"})
FailedDispatches(r) ==
    ProviderDispatches(r) - (IF pc[r] = "done" /\ result[r].success THEN 1 ELSE 0)

\* C12: a run in which a payment dispatch reached the provider and returned no reference
\* ends as a rejected payment: it is not a success, it has sent no bank-details request
\* and its error is not the missing bank details / payee error.
C12_FailedDispatchRejected ==
    \A r \in Workers :
        (pc[r] = "done" /\ FailedDispatches(r) > 0)
            => /\ ~result[r].success
               /\ "reply_to_thread" \notin Ops(r)
               /\ result[r].error # ErrBankRequired

Requests(r) == {k \in 1..Len(calls[r]) : calls[r][k].op = "send_bank_details_request"}

\* C14: a run on an invoice without complete bank details whose payee search found no
\* payee has dispatched no payment, has invoked the bank-details request exactly once,
\* and returns success = false with email_sent equal to the success flag of the request.
C14_NoPayeeRequestsBankDetails ==
    \A r \in Workers :
        (/\ pc[r] = "done"
         /\ ~BankDetailsComplete(inv[r].bank_details)
         /\ "search_payees" \in Ops(r)
         /\ payee[r] = NONE)
            => /\ Ops(r) \cap DispatchOps = {}
               /\ Cardinality(Requests(r)) = 1
               /\ ~result[r].success
               /\ \A k \in Requests(r) : result[r].email_sent = calls[r][k].arg.success

C14_Witness ==
    \E r \in Workers :
        /\ pc[r] = "done"
        /\ ~BankDetailsComplete(inv[r].bank_details)
        /\ "search_payees" \in Ops(r)
        /\ payee[r] = NONE
        /\ \E k \in Requests(r) : ~calls[r][k].arg.success /\ "reply_to_thread" \in Ops(r)

\* C15: a bank-details request made with an absent or empty thread_id or recipient
\* returns success = false with an error, and the run makes no call to the messaging
\* channel.
C15_RequestPrecondition ==
    \A r \in Workers :
        \A k \in Requests(r) :
            (~TruthyStr(calls[r][k].arg.thread_id) \/ ~TruthyStr(calls[r][k].arg.recipient))
                => /\ ~calls[r][k].arg.success
                   /\ TruthyStr(calls[r][k].arg.error)
                   /\ "reply_to_thread" \notin Ops(r)

C15_Witness ==
    \E r \in Workers :
        \E k \in Requests(r) :
            /\ TruthyStr(calls[r][k].arg.thread_id)
            /\ calls[r][k].arg.recipient = ""
            /\ pc[r] = "done"

\* The records of the history that match the invoice on either key.
Matches(hist, invoice_data) ==
    {k \in 1..Len(hist) : \/ ExactMatch(hist[k], invoice_data.email_data)
                          \/ SimilarMatch(hist[k], invoice_data)}

\* A recorded insufficient-funds or payee-not-found outcome.
Recoverable(record) ==
    ~record.result.success /\ record.result.error \in {ErrInsufficient, ErrBankRequired}

\* C16: a run of an invoice whose recorded attempts are all insufficient-funds or
\* payee-not-found failures proceeds past the duplicate check (from where, with enough
\* balance and a payee, it can pay).
C16_FailureRecoverable ==
    [][\A r \in Workers :
          (/\ pc[r] = "dup_check"
           /\ pc'[r] # "dup_check"
           /\ Matches(history, inv[r]) # {}
           /\ \A k \in Matches(history, inv[r]) : Recoverable(history[k]))
            => pc'[r] = "processed_check"]_vars

\* C17: when the record the duplicate check matched is a failed or pending attempt, the
\* run returns at once with success = false, the record's error and duplicate_info
\* status "pending" if the record's email_sent is true and "failed" otherwise; it has
\* made no call (no dispatch, no notification) and the history is unchanged.
C17_RetryableDuplicateReported ==
    [][\A r \in Workers :
          LET m == MatchedIndex(history, inv[r])
          IN  (/\ pc[r] = "dup_check"
               /\ pc'[r] # "dup_check"
               /\ m # 0
               /\ ~IsSettled(history[m]))
                => /\ pc'[r] = "done"
                   /\ ~result'[r].success
                   /\ result'[r].error = history[m].result.error
                   /\ result'[r].duplicate_info =
                        (IF history[m].result.email_sent THEN "pending" ELSE "failed")
                   /\ calls'[r] = <<>>
                   /\ history' = history]_vars

C17_Witness ==
    \E r \in Workers :
        /\ pc[r] = "done"
        /\ result[r].duplicate_info = "pending"
        /\ result[r].error = ErrBankRequired
        /\ calls[r] = <<>>

\* The error types of the failure taxonomy.
FailureTypes == {"validation_error", "insufficient_funds", "payee_not_found",
                 "payment_rejected", "duplicate"}

\* C18: the history record of a run that found neither bank details nor a payee (its
\* error is the bank details / payee required error) has success = false and
\* error_type payee_not_found.
C18_PayeeNotFoundRecorded ==
    \A k \in 1..Len(history) :
        history[k].result.error = ErrBankRequired
            => /\ ~history[k].result.success
               /\ history[k].result.error_type = "payee_not_found"

\* C19: every history record with result.success = false has an error_type of the
\* failure taxonomy.
C19_ErrorTypeEnum ==
    \A k \in 1..Len(history) :
        ~history[k].result.success => history[k].result.error_type \in FailureTypes

\* The statuses a request that has started processing may leave behind.
FinalStatuses == {"paid", "failed", "awaiting_bank_details"}

\* The responses pay_invoice gives after it has set the status to processing.
AfterProcessing == {"Failed to extract payment details", "Payment processing failed",
                    "Payment processed successfully"}

\* C20: a pay_invoice request that has set the invoice status to processing ends,
\* with a normal or an error response, with the status paid, failed or
\* awaiting_bank_details.
C20_ProcessingIsLeft ==
    (apc = "responded" /\ response.detail \in AfterProcessing) => status \in FinalStatuses

\* The references the provider returns.
References == SendOutcomes \ {NONE, "error"}
ProviderResponses(r) == {k \in 1..Len(calls[r]) : calls[r][k].op = "provider_response"}

\* C21: a run that is past the duplicate checks with a balance covering the amount, on
\* an invoice with complete inline bank details or with a payee found, in which the
\* provider answered no dispatch without a reference, returns success = true with
\* payment_id equal to the reference the provider returned.
C21_PaidWithReference ==
    \A r \in Workers :
        (/\ pc[r] = "done"
         /\ BalanceChecked(r)
         /\ balance[r] >= inv[r].paid_amount[1]
         /\ BankDetailsComplete(inv[r].bank_details) \/ payee[r] # NONE
         /\ \A k \in ProviderResponses(r) : calls[r][k].arg \in References)
            => /\ result[r].success
               /\ \E k \in ProviderResponses(r) : result[r].payment_id = calls[r][k].arg

\* The duplicate check of run r takes the decision the record calls for: a settled
\* record lets the run go on to is_invoice_processed, a failed or pending one ends it
\* with that record's error and status.
DecidedBy(r, record) ==
    IF IsSettled(record)
    THEN pc'[r] = "processed_check"
    ELSE /\ pc'[r] = "done"
         /\ result'[r].error = record.result.error
         /\ result'[r].duplicate_info = (IF record.result.email_sent THEN "pending" ELSE "failed")

ExactMatches(hist, invoice_data) ==
    {k \in 1..Len(hist) : ExactMatch(hist[k], invoice_data.email_data)}
SimilarMatches(hist, invoice_data) ==
    {k \in 1..Len(hist) : SimilarMatch(hist[k], invoice_data)}

\* C22: when a record of the history matches the invoice on (message_id, attachment_id)
\* the duplicate decision is that of an exact-match record; the decision is that of a
\* record matching on (invoice_number, date, amount, recipient) only when no record
\* matches exactly.
C22_ExactBeforeSimilar ==
    [][\A r \in Workers :
          (pc[r] = "dup_check" /\ pc'[r] # "dup_check")
            => /\ ExactMatches(history, inv[r]) # {}
                    => \E k \in ExactMatches(history, inv[r]) : DecidedBy(r, history[k])
               /\ (ExactMatches(history, inv[r]) = {} /\ SimilarMatches(history, inv[r]) # {})
                    => \E k \in SimilarMatches(history, inv[r]) : DecidedBy(r, history[k])]_vars

C22_Witness ==
    \E r \in Workers :
        /\ pc[r] = "done"
        /\ result[r].duplicate_info = "pending"
        /\ \E k \in SimilarMatches(history, inv[r]), j \in ExactMatches(history, inv[r]) :
              /\ k < j
              /\ k \notin ExactMatches(history, inv[r])
              /\ IsSettled(history[k])
              /\ ~IsSettled(history[j])

\* The run has made the dispatch with the extracted bank details.
BankPathTaken(r) ==
    \E k \in 1..Len(calls[r]) :
        calls[r][k].op = "send_payment_tool" /\ calls[r][k].arg = "bank_details"

\* Holder name, account number, routing number and account type are all present.
AllFourPresent(bank_details) ==
    /\ TruthyStr(bank_details.account_holder_name)
    /\ TruthyStr(bank_details.account_number)
    /\ TruthyStr(bank_details.routing_number)
    /\ TruthyStr(bank_details.account_type)

\* C23: a run that got past the balance check has taken the inline-bank-details payment
\* path exactly when the bank details have holder name, account number, routing number
\* and account type all present; with any of the four missing it has resolved the payee
\* by the provider search instead.
C23_BankPathWhenAllFour ==
    \A r \in Workers :
        (pc[r] = "done" /\ BalanceChecked(r) /\ balance[r] >= inv[r].paid_amount[1])
            => /\ BankPathTaken(r) <=> AllFourPresent(inv[r].bank_details)
               /\ ~AllFourPresent(inv[r].bank_details) => "search_payees" \in Ops(r)

\* C24: an extractor returns either a record whose recipient name and amount both come
\* from the extraction output, or an explicit error; it produces no record with a
\* defaulted recipient name or amount.
C24_NoDefaultedFields ==
    /\ extraction.impl = "pdf_agent"
         => IF extraction.output.ok
            THEN /\ extraction.input.name # NONE
                 /\ extraction.output.recipient = extraction.input.name
                 /\ extraction.input.amount # NoAmount
                 /\ extraction.output.amount = extraction.input.amount
            ELSE TruthyStr(extraction.output.error)
    /\ (extraction.impl = "processor" /\ extraction.output.ok)
              => /\ extraction.output.recipient
                      \in {extraction.input.pattern_recipient, extraction.input.name_like} \ {NONE}
                 /\ extraction.output.amount
                      \in {extraction.input.pattern_amount, extraction.input.total_amount} \ {NoAmount}

\* C25: a duplicate check (is_duplicate_invoice or is_invoice_processed) made while the
\* history cannot be parsed or holds a record without the expected fields ends the run
\* without success; the run does not go on towards the dispatch.
C25_DuplicateCheckFailsClosed ==
    [][\A r \in Workers :
          (/\ pc[r] \in {"dup_check", "processed_check"}
           /\ pc'[r] # pc[r]
           /\ ~Readable(history))
            => (pc'[r] = "done" /\ ~result'[r].success)]_vars

\* C26: a save of multi_agent.save_payment_history (its record is the last one of the
\* new history) keeps every record whose message_id and thread_id both differ from
\* those of the payment being saved.
C26_OtherEmailsKept ==
    [][history' # history =>
          LET saved == history'[Len(history')].email_data
          IN  \A k \in 1..Len(history) :
                  (/\ history[k].email_data.message_id # saved.message_id
                   /\ history[k].email_data.thread_id # saved.thread_id)
                    => \E j \in 1..(Len(history') - 1) : history'[j] = history[k]]_vars

\* C27: in a history built by agents/payment_agent.save_payment_history alone, no two
\* records have the same (message_id, attachment_id) and no two have the same
\* (invoice_number, date, paid_amount, recipient): a call matching a stored record on
\* either key adds nothing.
C27_KeysUnique ==
    \A j, k \in 1..Len(history) :
        j < k =>
            /\ ~ /\ history[j].email_data.message_id = history[k].email_data.message_id
                 /\ history[j].email_data.attachment_id = history[k].email_data.attachment_id
            /\ ~ /\ history[j].invoice_data.invoice_number = history[k].invoice_data.invoice_number
                 /\ history[j].invoice_data.date = history[k].invoice_data.date
                 /\ history[j].invoice_data.paid_amount = history[k].invoice_data.paid_amount
                 /\ history[j].invoice_data.recipient = history[k].invoice_data.recipient

\* C28: while the status of the invoice document is paid, no step of a pay_invoice
\* request changes the status and none calls process_payment.
C28_PaidIsFinal ==
    [][status = "paid" =>
          /\ status' = "paid"
          /\ ~(apc = "payment" /\ apc' = "await")]_vars

\* C29: get_next_node gives the state a node returned probability 1 for the node named
\* in its next field and 0 for the others, and no node of the workflow runs twice.
C29_RoutedByNext ==
    workflow.visited # <<>> =>
        /\ GetNextNode(workflow.state)
             = [n \in Nodes |-> IF n = workflow.state.next THEN 1 ELSE 0]
        /\ \A j, k \in 1..Len(workflow.visited) :
               j < k => workflow.visited[j] # workflow.visited[k]

BatchOps(ops) == {j \in 1..Len(batch.calls) : batch.calls[j].op \in ops}

\* C30: the first request of a batch run is the balance request; if the spendable
\* balance is less than the total of the batch, the run makes no payee search and no
\* dispatch; otherwise the rounds done so far have given one result each, in the order of
\* the batch, a failed result is followed by the round of the next payment, and the
\* finished run has one result for every payment.
C30_BatchBalanceFirst ==
    batch.pc # "idle" =>
        /\ batch.calls[1].op = "get_balance"
        /\ batch.output # "error" /\ batch.balance < TotalAmount(batch.payments)
             => /\ BatchOps({"search_payees", "provider_send_payment"}) = {}
                /\ batch.results = <<>>
                /\ batch.pc = "done"
        /\ batch.output # "error" /\ batch.balance >= TotalAmount(batch.payments)
             => /\ batch.pc = "loop" => Len(batch.results) = batch.k - 1
                /\ batch.pc = "done" => Len(batch.results) = Len(batch.payments)
                /\ \A j \in 1..Len(batch.results) :
                       /\ batch.results[j].payment_id = batch.payments[j].id
                       /\ Cardinality({c \in BatchOps({"search_payees"}) :
                                          batch.calls[c].arg = j}) = 1

\* A finished run of two payments whose first payment failed and whose second succeeded.
C30_Witness ==
    /\ batch.pc = "done"
    /\ batch.output = "summary"
    /\ Len(batch.results) = 2
    /\ batch.results[1].status = "failed"
    /\ batch.results[2].status = "success"

====
